---- MODULE Spec2Model ----
(***************************************************************************)
(* Model of the manual protobuf decoder of server.js: decodeVarint and     *)
(* parseBlockData.  A buffer is a sequence of bytes (0..255), indexed from *)
(* 0 by the code and from 1 by TLA+.  parseBlockData is a state machine    *)
(* with one action per statement group / loop iteration; decodeVarint is   *)
(* an operator computed with JavaScript's 32-bit bitwise semantics.        *)
(* getChainInfo, getBlockInfoFromTxId and the handlers of the /api routes  *)
(* (with connectToNetwork) are further state machines over the same        *)
(* variables, each with its own initial predicate and next-state relation. *)
(***************************************************************************)
EXTENDS Integers, Sequences, FiniteSets, TLC

VARIABLES buf, pc, pos, headerEnd, dataEnd, txCount, result, ret, thrown, vres,
          info, calls, seen, other, txId, blockInfo, requests

vars == <<buf, pc, pos, headerEnd, dataEnd, txCount, result, ret, thrown, vres,
          info, calls, seen, other, txId, blockInfo, requests>>

----------------------------------------------------------------------------
(* Bounds of the explored input space *)

MaxLen == 5
MaxVarintLen == 5
MaxSmallN == 300
MaxPad == 1
MaxLiveLen == 3
MaxInfoLen == 34
MaxCalls == 3
MaxRequests == 2

----------------------------------------------------------------------------
(* JavaScript values *)

\* buffer[p] for p outside 0..length-1 is undefined
Undefined == -1

\* null / a missing property is the empty sequence, a present value v is <<v>>
Null == <<>>

Some(v) == <<v>>

Min(a, b) == IF a < b THEN a ELSE b

Max(a, b) == IF a > b THEN a ELSE b

ByteAt(buffer, p) ==
    IF p >= 0 /\ p < Len(buffer) THEN buffer[p + 1] ELSE Undefined

\* A 32-bit word is the set of its bit positions that are 1
Bits(n) == {i \in 0..7 : (n \div (2 ^ i)) % 2 = 1}

\* byte & 0x7f   (undefined & 0x7f = 0)
Low7(byte) == IF byte = Undefined THEN 0 ELSE byte % 128

\* byte & 0x80   (undefined & 0x80 = 0, which is falsy)
MoreBytes(byte) == byte # Undefined /\ byte >= 128

\* x << shift on int32: the shift count is taken modulo 32, high bits drop
ShiftLeft(word, shift) ==
    {i + (shift % 32) : i \in word} \cap (0..31)

\* the value of bits i..30 of a word
RECURSIVE SumBits(_, _)
SumBits(word, i) ==
    IF i > 30 THEN 0
    ELSE (IF i \in word THEN 2 ^ i ELSE 0) + SumBits(word, i + 1)

\* the signed value of an int32 bit pattern (bit 31 is the sign)
ToInt32(word) ==
    IF 31 \in word
    THEN (SumBits(word, 0) - (2 ^ 30)) - (2 ^ 30)
    ELSE SumBits(word, 0)

----------------------------------------------------------------------------
(* decodeVarint *)

VarintError == "Varint extends beyond buffer"

VarintThrown(message) ==
    [thrown |-> Some(message), value |-> Null, bytesRead |-> Null]

VarintReturn(value, bytesRead) ==
    [thrown |-> Null, value |-> Some(value), bytesRead |-> Some(bytesRead)]

\* bounds check that lets the read at buffer.length through
VarintPastEndOffByOne(buffer, p) == p > Len(buffer)

VarintPastEnd(buffer, p) == p >= Len(buffer)

\* shift advanced by a whole byte instead of the 7 payload bits
NextShiftByte(shift) == shift + 8

\* shift += 7
NextShift(shift) == shift + 7

RECURSIVE VarintLoop(_, _, _, _, _)
VarintLoop(buffer, offset, p, word, shift) ==
    IF VarintPastEnd(buffer, p)
    THEN VarintThrown(VarintError)
    ELSE LET byte == ByteAt(buffer, p)
             word2 == word \cup ShiftLeft(Bits(Low7(byte)), shift)
         IN IF MoreBytes(byte)
            THEN VarintLoop(buffer, offset, p + 1, word2, NextShift(shift))
            ELSE VarintReturn(ToInt32(word2), (p + 1) - offset)

decodeVarint(buffer, offset) == VarintLoop(buffer, offset, offset, {}, 0)

----------------------------------------------------------------------------
(* Buffer.from(bytes.slice(start, end)).toString('hex') *)

HexDigits ==
    <<"0", "1", "2", "3", "4", "5", "6", "7",
      "8", "9", "a", "b", "c", "d", "e", "f">>

RECURSIVE ToHex(_)
ToHex(bytes) ==
    IF bytes = <<>> THEN <<>>
    ELSE <<HexDigits[(Head(bytes) \div 16) + 1], HexDigits[(Head(bytes) % 16) + 1]>>
         \o ToHex(Tail(bytes))

\* TypedArray.prototype.slice: negative indices count from the end, both
\* indices are clamped to 0..length, an empty range gives an empty array
RelativeIndex(buffer, i) ==
    IF i < 0 THEN Max(Len(buffer) + i, 0) ELSE Min(i, Len(buffer))

Slice(buffer, start, end) ==
    LET k == RelativeIndex(buffer, start)
        final == RelativeIndex(buffer, end)
    IN IF final > k THEN SubSeq(buffer, k + 1, final) ELSE <<>>

----------------------------------------------------------------------------
(* Inputs *)

AllSeqs(S, n) == UNION {[1..k -> S] : k \in 0..n}

Repeat(byte, n) == [i \in 1..n |-> byte]

\* the tag bytes of the format and small lengths / values
SmallBytes == {0, 1, 2, 8, 10, 18, 26}

\* bytes of multi-byte varints: continuation bytes and terminators
VarintBytes == {0, 15, 128, 255}

\* header 42 / 32 x 0xAA / 32 x 0xBB, data section of 3 empty envelopes
HappyPathBlock ==
    <<10, 70, 8, 42, 18, 32>> \o Repeat(170, 32) \o <<26, 32>> \o Repeat(187, 32)
    \o <<18, 6, 10, 0, 10, 0, 10, 0>>

\* buffers whose varints do not fit 31 bits, or span several bytes
CraftedBlocks ==
    { HappyPathBlock,
      <<10, 6, 8, 128, 128, 128, 128, 8>>,           \* block number 2^31
      <<10, 6, 8, 255, 255, 255, 255, 15>>,          \* block number 2^32 - 1
      <<10, 12, 8, 128, 128, 128, 128, 16, 18, 1, 170, 26, 1, 187, 18, 2, 10, 0>>,
                                                     \* block number 2^32
      <<10, 6, 18, 250, 255, 255, 255, 15>>,         \* hash length 2^32 - 6
      <<10, 7, 26, 249, 255, 255, 255, 15, 8>>,      \* hash length 2^32 - 7
      <<10, 255, 255, 255, 255, 15, 18, 0>>,         \* header length 2^32 - 1
      <<10, 0, 18, 7, 10, 249, 255, 255, 255, 15, 0>>, \* envelope length 2^32 - 7
      <<10, 129, 0, 8, 18, 0>>,                      \* header length 1 in two bytes
      <<10, 128, 1, 8, 1>>,                          \* header length 128
      <<10, 2, 8, 172, 2, 18, 3, 10, 1, 9>> }        \* block number 300

\* the base-128 encoding of an unsigned integer, low group first
RECURSIVE EncodeVarint(_)
EncodeVarint(n) ==
    IF n < 128 THEN <<n>>
    ELSE <<(n % 128) + 128>> \o EncodeVarint(n \div 128)

LengthDelimited(tag, payload) ==
    <<tag>> \o EncodeVarint(Len(payload)) \o payload

RECURSIVE Envelopes(_)
Envelopes(payloads) ==
    IF payloads = <<>> THEN <<>>
    ELSE LengthDelimited(10, Head(payloads)) \o Envelopes(Tail(payloads))

\* A well-formed block: the block number is given by its varint, since a
\* ledger height may be 2^31 or more
WellFormedBlock(number, previous, data, payloads) ==
    LengthDelimited(10, <<8>> \o number \o LengthDelimited(18, previous)
                        \o LengthDelimited(26, data))
    \o LengthDelimited(18, Envelopes(payloads))

WellFormedCases ==
    {[block |-> WellFormedBlock(number, previous, data, payloads),
      number |-> number, previous |-> previous, data |-> data,
      count |-> Len(payloads)] :
        number \in {EncodeVarint(0), EncodeVarint(42), EncodeVarint(300),
                    <<128, 128, 128, 128, 8>>},
        previous \in {<<>>, <<170>>, Repeat(170, 32)},
        data \in {<<187>>, Repeat(187, 32)},
        payloads \in {<<>>, <<<<>>>>, <<<<>>, <<>>, <<>>>>, <<<<1, 2>>, <<10>>>>}}

\* A well-formed header followed by the end of the buffer, or by bytes that
\* do not start with the data tag 0x12
HeaderOnlyCases ==
    {[block |-> LengthDelimited(10, <<8>> \o number \o LengthDelimited(18, previous)
                                   \o LengthDelimited(26, data)) \o rest,
      number |-> number, previous |-> previous, data |-> data, rest |-> rest] :
        number \in {EncodeVarint(0), EncodeVarint(42), EncodeVarint(300)},
        previous \in {<<>>, <<170>>, Repeat(170, 32)},
        data \in {<<187>>, Repeat(187, 32)},
        rest \in {<<>>, <<8>>, <<10, 0>>, <<10, 2, 10, 0>>, <<26, 1, 18>>}}

\* A data section of envelopes, then possibly an entry with another tag and
\* more envelopes after it, in a block that may go on after the data section
DataSectionCases ==
    {[block |-> LengthDelimited(10, <<8, 7>>)
                \o LengthDelimited(18, Envelopes(payloads) \o others) \o rest,
      payloads |-> payloads, others |-> others, rest |-> rest] :
        payloads \in {<<>>, <<<<>>>>, <<<<10, 0>>>>, <<<<>>, <<>>, <<>>>>,
                      <<<<10, 10, 10>>, <<18>>>>, <<Repeat(10, 130), <<1>>>>},
        others \in {<<>>, <<0>>, <<18, 0, 10, 0>>, <<8, 1, 10, 1, 10>>},
        rest \in {<<>>, <<10, 0>>}}

\* the buffers of the calls that follow one another or run side by side
CallBlocks ==
    { <<10, 0>>,
      <<10, 2, 8, 1>>,
      <<10, 9, 0, 8, 42, 18, 1, 170, 26, 1, 187, 18, 2, 10, 0>>,
      <<8>>,
      <<10, 2, 8, 1, 18>>,
      <<10, 3, 18, 1, 170>> }

Blocks ==
    AllSeqs(SmallBytes, MaxLen)
    \cup {s \o <<128>> : s \in AllSeqs(SmallBytes, MaxLen - 1)}
    \cup CraftedBlocks
    \cup {c.block : c \in WellFormedCases}
    \cup {c.block : c \in HeaderOnlyCases}
    \cup {c.block : c \in DataSectionCases}
    \cup CallBlocks

\* chain info blobs of every length up to MaxInfoLen
InfoBuffers ==
    {Repeat(byte, n) : byte \in {0, 10, 171, 255}, n \in 0..MaxInfoLen}
    \cup {[i \in 1..n |-> (i * 37) % 256] : n \in 0..MaxInfoLen}

VarintSamples ==
    (0..MaxSmallN) \cup {16383, 16384, 2097151, 2097152, 268435455, 268435456,
                         300000000}

VarintBuffers ==
    {pad \o EncodeVarint(n) \o tail :
        pad \in AllSeqs({255}, MaxPad), n \in VarintSamples, tail \in {<<>>, <<128>>}}
    \cup AllSeqs(VarintBytes, MaxVarintLen)

----------------------------------------------------------------------------
(* parseBlockData: records *)

HeaderTagError == "Expected header field"

\* const headerStart = pos: the position after the header length varint
headerStart(buffer) == 1 + decodeVarint(buffer, 1).bytesRead[1]

EmptyResult ==
    [blockNumber |-> Null, previousHash |-> Null, dataHash |-> Null,
     transactionCount |-> 0]

\* the record of the return statement: result itself, no error property
Returned(r) ==
    [blockNumber |-> r.blockNumber, previousHash |-> r.previousHash,
     dataHash |-> r.dataHash, transactionCount |-> r.transactionCount,
     error |-> Null]

NoRecord == Returned(EmptyResult)

\* catch block that lets the exception escape
CatchRethrow(r, message) ==
    [pc |-> "raised", ret |-> NoRecord]

\* catch block that attaches the error to the partially filled result
CatchPartial(r, message) ==
    [pc |-> "returned",
     ret |-> [blockNumber |-> r.blockNumber, previousHash |-> r.previousHash,
              dataHash |-> r.dataHash, transactionCount |-> 0,
              error |-> Some(message)]]

\* the catch block: a fresh record, whatever result held
Catch(r, message) ==
    [pc |-> "returned",
     ret |-> [blockNumber |-> Null, previousHash |-> Null, dataHash |-> Null,
              transactionCount |-> 0, error |-> Some(message)]]

\* tag check that only asks for a first byte
HeaderTagAny(byte) == byte # Undefined

HeaderTagOk(byte) == byte = 10

----------------------------------------------------------------------------
(* Calls of parseBlockData: each call has its own pos, result, headerEnd,
   dataEnd, txCount (let / const of the function body) *)

\* the call whose steps the parse actions take
ActiveFrame ==
    [buf |-> buf, pc |-> pc, pos |-> pos, headerEnd |-> headerEnd,
     dataEnd |-> dataEnd, txCount |-> txCount, result |-> result, ret |-> ret,
     thrown |-> thrown]

\* no second call
NoFrame ==
    [buf |-> <<>>, pc |-> "idle", pos |-> 0, headerEnd |-> 0, dataEnd |-> 0,
     txCount |-> 0, result |-> EmptyResult, ret |-> NoRecord, thrown |-> Null]

\* result declared outside the function: a call starts with what the last left
EntryResultKept(previous) == previous

\* const result = { blockNumber: null, ... } at the start of every call
EntryResult(previous) == EmptyResult

\* the frame of a call that starts on buffer b
NewFrame(b, previous) ==
    [buf |-> b, pc |-> "start", pos |-> 0, headerEnd |-> 0, dataEnd |-> 0,
     txCount |-> 0, result |-> EntryResult(previous), ret |-> NoRecord,
     thrown |-> Null]

\* result shared by the calls: a resumed call goes on with the other's result
ResumeSharedResult(frame, current) == [frame EXCEPT !.result = current.result]

\* a call goes on with its own locals
Resume(frame, current) == frame

----------------------------------------------------------------------------
(* getChainInfo *)

QueryError == "evaluate failed"

NoInfo == [success |-> FALSE, dataSize |-> Null, infoHex |-> Null, error |-> Null]

\* preview that hex-encodes the whole blob
InfoPreviewWhole(infoBytes) == ToHex(infoBytes)

\* Buffer.from(infoBytes.slice(0, 32)).toString('hex')
InfoPreview(infoBytes) == ToHex(Slice(infoBytes, 0, 32))

----------------------------------------------------------------------------
(* getBlockInfoFromTxId *)

\* config.channelName: the value is read from config.json, it is kept symbolic
ChannelName == "config.channelName"

TxIds == {"tx1", "tx2"}

\* no transaction id: the function has not been called
NoTxId == ""

\* the function has not returned an object yet
NoBlockInfo == [pending |-> TRUE]

\* the object of the return statement of the try block: these eight
\* properties and no other; blockData.error is not copied
BlockInfoOf(id, blockBytes, blockData) ==
    [success |-> TRUE,
     transactionId |-> id,
     blockNumber |-> blockData.blockNumber,
     previousBlockHash |-> blockData.previousHash,
     dataHash |-> blockData.dataHash,
     transactionCount |-> blockData.transactionCount,
     blockSize |-> Len(blockBytes),
     channel |-> ChannelName]

\* the object of the catch block
BlockInfoFailure(message) == [success |-> FALSE, error |-> message]

----------------------------------------------------------------------------
(* Request handlers of the /api routes and connectToNetwork.  A request is
   the state of one run of a handler: the handler's locals gateway and
   client (bound or undefined), the gRPC client and the gateway made for it
   by connectToNetwork, and how often close() was called on each *)

Requests == 1..MaxRequests

Routes ==
    {"/api/hashes", "/api/hash/:documentId", "/api/search/:hashValue",
     "/api/blockchain/info", "/api/block/txid/:txId", "/api/transaction/:txId"}

\* the routes whose first await after the connection is getChainInfo or
\* getBlockInfoFromTxId; the others first await GetAllHashes
LookupFirst == {"/api/blockchain/info", "/api/block/txid/:txId"}

\* what the handler finds in the parsed answer of GetAllHashes
Outcomes(route) ==
    CASE route = "/api/hashes" -> {"listed"}
      [] route = "/api/hash/:documentId" ->
             {"noData", "notFound", "foundWithoutTxId", "foundWithTxId"}
      [] route = "/api/search/:hashValue" -> {"noData", "notFound", "found"}
      [] route = "/api/transaction/:txId" -> {"noData", "notFound", "foundWithTxId"}
      [] OTHER -> {}

\* no request is being served on this slot
IdleRequest ==
    [route |-> "", pc |-> "idle", gateway |-> FALSE, client |-> FALSE,
     clientMade |-> FALSE, gatewayMade |-> FALSE,
     clientCloses |-> 0, gatewayCloses |-> 0, status |-> 0, error |-> Null]

NoRequests == [r \in Requests |-> IdleRequest]

\* let gateway; let client; at the start of a handler
NewRequest(route) == [IdleRequest EXCEPT !.route = route, !.pc = "createGrpcClient"]

\* res.json(...) or res.status(code).json(...)
Respond(req, code) == [req EXCEPT !.status = code]

\* finally { if (gateway) gateway.close(); if (client) client.close(); }
Finally(req) ==
    [req EXCEPT !.gatewayCloses = IF req.gateway THEN @ + 1 ELSE @,
                !.clientCloses = IF req.client THEN @ + 1 ELSE @,
                !.pc = "done"]

\* the messages of the exceptions of createGrpcClient and loadIdentity
CertificateError == "TLS Root Certificate not found"

IdentityErrors ==
    {"No user credentials found", "No .pem file found", "No key found"}

\* an exception of signers.newPrivateKeySigner or connect
ConnectError == "connect failed"

\* an exception in the try block of a handler: catch answers 500 with
\* error.message, then finally
CatchAndFinally(req, message) ==
    Finally([Respond(req, 500) EXCEPT !.error = Some(message)])

----------------------------------------------------------------------------
(* parseBlockData: steps *)

\* throw inside the try block: control goes to the catch block
Throw(message) ==
    /\ thrown' = Some(message)
    /\ pc' = Catch(result, message).pc
    /\ ret' = Catch(result, message).ret

Continue(next) ==
    /\ pc' = next
    /\ UNCHANGED <<ret, thrown>>

CheckHeaderTag ==
    /\ pc = "start"
    /\ UNCHANGED <<buf, headerEnd, dataEnd, txCount, result, vres, info, calls, seen, other,
                   txId, blockInfo, requests>>
    /\ IF HeaderTagOk(ByteAt(buf, pos))
       THEN pos' = pos + 1 /\ Continue("headerLen")
       ELSE UNCHANGED pos /\ Throw(HeaderTagError)

ReadHeaderLength ==
    /\ pc = "headerLen"
    /\ UNCHANGED <<buf, dataEnd, txCount, result, vres, info, calls, seen, other,
                   txId, blockInfo, requests>>
    /\ LET headerLength == decodeVarint(buf, pos)
       IN IF headerLength.thrown # Null
          THEN UNCHANGED <<pos, headerEnd>> /\ Throw(headerLength.thrown[1])
          ELSE /\ pos' = pos + headerLength.bytesRead[1]
               /\ headerEnd' = (pos + headerLength.bytesRead[1]) + headerLength.value[1]
               /\ Continue("header")

HeaderBlockNumber ==
    /\ pc = "header"
    /\ pos < headerEnd
    /\ ByteAt(buf, pos) = 8
    /\ UNCHANGED <<buf, headerEnd, dataEnd, txCount, vres, info, calls, seen, other,
                   txId, blockInfo, requests>>
    /\ LET blockNum == decodeVarint(buf, pos + 1)
       IN IF blockNum.thrown # Null
          THEN pos' = pos + 1 /\ UNCHANGED result /\ Throw(blockNum.thrown[1])
          ELSE /\ result' = [result EXCEPT !.blockNumber = Some(blockNum.value[1])]
               /\ pos' = (pos + 1) + blockNum.bytesRead[1]
               /\ Continue("header")

HeaderPreviousHash ==
    /\ pc = "header"
    /\ pos < headerEnd
    /\ ByteAt(buf, pos) = 18
    /\ UNCHANGED <<buf, headerEnd, dataEnd, txCount, vres, info, calls, seen, other,
                   txId, blockInfo, requests>>
    /\ LET hashLen == decodeVarint(buf, pos + 1)
       IN IF hashLen.thrown # Null
          THEN pos' = pos + 1 /\ UNCHANGED result /\ Throw(hashLen.thrown[1])
          ELSE LET p == (pos + 1) + hashLen.bytesRead[1]
               IN /\ result' = [result EXCEPT !.previousHash =
                                    Some(ToHex(Slice(buf, p, p + hashLen.value[1])))]
                  /\ pos' = p + hashLen.value[1]
                  /\ Continue("header")

HeaderDataHash ==
    /\ pc = "header"
    /\ pos < headerEnd
    /\ ByteAt(buf, pos) = 26
    /\ UNCHANGED <<buf, headerEnd, dataEnd, txCount, vres, info, calls, seen, other,
                   txId, blockInfo, requests>>
    /\ LET hashLen == decodeVarint(buf, pos + 1)
       IN IF hashLen.thrown # Null
          THEN pos' = pos + 1 /\ UNCHANGED result /\ Throw(hashLen.thrown[1])
          ELSE LET p == (pos + 1) + hashLen.bytesRead[1]
               IN /\ result' = [result EXCEPT !.dataHash =
                                    Some(ToHex(Slice(buf, p, p + hashLen.value[1])))]
                  /\ pos' = p + hashLen.value[1]
                  /\ Continue("header")

\* skip that takes an unknown tag for a tag followed by a one-byte value
UnknownFieldSkipTwo(p) == p + 2

\* pos++ of the else branch
UnknownFieldSkip(p) == p + 1

HeaderUnknownField ==
    /\ pc = "header"
    /\ pos < headerEnd
    /\ ByteAt(buf, pos) \notin {8, 18, 26}
    /\ pos' = UnknownFieldSkip(pos)
    /\ Continue("header")
    /\ UNCHANGED <<buf, headerEnd, dataEnd, txCount, result, vres, info, calls, seen, other,
                   txId, blockInfo, requests>>

\* data pass that goes on from wherever the header loop stopped
DataStartAtCursor(p, hEnd) == p

\* pos = headerEnd
DataStart(p, hEnd) == hEnd

HeaderLoopExit ==
    /\ pc = "header"
    /\ ~(pos < headerEnd)
    /\ pos' = DataStart(pos, headerEnd)
    /\ Continue("dataTag")
    /\ UNCHANGED <<buf, headerEnd, dataEnd, txCount, result, vres, info, calls, seen, other,
                   txId, blockInfo, requests>>

\* data tag check that takes any following byte for the data section
HasDataSectionAnyTag == pos < Len(buf)

HasDataSection == pos < Len(buf) /\ ByteAt(buf, pos) = 18

DataSectionAbsent ==
    /\ pc = "dataTag"
    /\ ~HasDataSection
    /\ pc' = "returned"
    /\ ret' = Returned(result)
    /\ UNCHANGED <<buf, pos, headerEnd, dataEnd, txCount, result, thrown, vres, info, calls, seen, other,
                   txId, blockInfo, requests>>

ReadDataLength ==
    /\ pc = "dataTag"
    /\ HasDataSection
    /\ UNCHANGED <<buf, headerEnd, result, vres, info, calls, seen, other,
                   txId, blockInfo, requests>>
    /\ LET dataLength == decodeVarint(buf, pos + 1)
       IN IF dataLength.thrown # Null
          THEN pos' = pos + 1 /\ UNCHANGED <<dataEnd, txCount>>
               /\ Throw(dataLength.thrown[1])
          ELSE /\ pos' = (pos + 1) + dataLength.bytesRead[1]
               /\ dataEnd' = ((pos + 1) + dataLength.bytesRead[1]) + dataLength.value[1]
               /\ txCount' = 0
               /\ Continue("data")

\* skip of the length varint only, the payload is scanned as entries
EnvelopeSkipLengthOnly(bytesRead, value) == bytesRead

\* pos += txLen.bytesRead + txLen.value
EnvelopeSkip(bytesRead, value) == bytesRead + value

CountEnvelope ==
    /\ pc = "data"
    /\ pos < dataEnd
    /\ ByteAt(buf, pos) = 10
    /\ UNCHANGED <<buf, headerEnd, dataEnd, result, vres, info, calls, seen, other,
                   txId, blockInfo, requests>>
    /\ txCount' = txCount + 1
    /\ LET txLen == decodeVarint(buf, pos + 1)
       IN IF txLen.thrown # Null
          THEN pos' = pos + 1 /\ Throw(txLen.thrown[1])
          ELSE /\ pos' = (pos + 1) + EnvelopeSkip(txLen.bytesRead[1], txLen.value[1])
               /\ Continue("data")

DataLoopExit ==
    /\ pc = "data"
    /\ ~(pos < dataEnd /\ ByteAt(buf, pos) = 10)
    /\ result' = [result EXCEPT !.transactionCount = txCount]
    /\ pc' = "returned"
    /\ ret' = Returned(result')
    /\ UNCHANGED <<buf, pos, headerEnd, dataEnd, txCount, thrown, vres, info, calls, seen, other,
                   txId, blockInfo, requests>>

Next ==
    \/ CheckHeaderTag
    \/ ReadHeaderLength
    \/ HeaderBlockNumber
    \/ HeaderPreviousHash
    \/ HeaderDataHash
    \/ HeaderUnknownField
    \/ HeaderLoopExit
    \/ DataSectionAbsent
    \/ ReadDataLength
    \/ CountEnvelope
    \/ DataLoopExit

\* a call of parseBlockData(buf): pos = 0 and the empty result are set up
Init ==
    /\ buf \in Blocks
    /\ pc = "start"
    /\ pos = 0
    /\ headerEnd = 0
    /\ dataEnd = 0
    /\ txCount = 0
    /\ result = EmptyResult
    /\ ret = NoRecord
    /\ thrown = Null
    /\ vres = VarintThrown("")
    /\ info = NoInfo
    /\ calls = 1
    /\ seen = {}
    /\ other = NoFrame
    /\ txId = NoTxId
    /\ blockInfo = NoBlockInfo
    /\ requests = NoRequests

Spec == Init /\ [][Next]_vars

\* The same call on the shorter buffers, with the scheduling JavaScript
\* gives a synchronous function: it keeps running until it returns or throws
\* (the loop of <<10, 6, 18, 250, 255, 255, 255, 15>> repeats one state, which
\* is a stuttering step; the loop kept here alternates between two states)
InitLive ==
    /\ Init
    /\ buf \in AllSeqs(SmallBytes, MaxLiveLen)
               \cup (CraftedBlocks \ {<<10, 6, 18, 250, 255, 255, 255, 15>>})

FairSpec == InitLive /\ [][Next]_vars /\ WF_vars(Next)

----------------------------------------------------------------------------
(* decodeVarint alone, applied to a buffer at an offset *)

ApplyDecodeVarint ==
    /\ pc = "varint"
    /\ vres' = decodeVarint(buf, pos)
    /\ pc' = "varintDone"
    /\ UNCHANGED <<buf, pos, headerEnd, dataEnd, txCount, result, ret, thrown,
                   info, calls, seen, other,
                   txId, blockInfo, requests>>

InitVarint ==
    /\ buf \in VarintBuffers
    /\ pos \in 0..(Len(buf) + 1)
    /\ pc = "varint"
    /\ headerEnd = 0
    /\ dataEnd = 0
    /\ txCount = 0
    /\ result = EmptyResult
    /\ ret = NoRecord
    /\ thrown = Null
    /\ vres = VarintThrown("")
    /\ info = NoInfo
    /\ calls = 1
    /\ seen = {}
    /\ other = NoFrame
    /\ txId = NoTxId
    /\ blockInfo = NoBlockInfo
    /\ requests = NoRequests

NextVarint == ApplyDecodeVarint

----------------------------------------------------------------------------
(* Several calls of parseBlockData, by one request handler after another or
   by handlers running side by side *)

Activate(frame) ==
    /\ buf' = frame.buf
    /\ pc' = frame.pc
    /\ pos' = frame.pos
    /\ headerEnd' = frame.headerEnd
    /\ dataEnd' = frame.dataEnd
    /\ txCount' = frame.txCount
    /\ result' = frame.result
    /\ ret' = frame.ret
    /\ thrown' = frame.thrown

\* the call has returned; parseBlockData is called again
CallAgain ==
    /\ pc = "returned"
    /\ calls < MaxCalls
    /\ calls' = calls + 1
    /\ seen' = seen \cup {<<buf, ret>>}
    /\ \E b \in CallBlocks : Activate(NewFrame(b, result))
    /\ UNCHANGED <<vres, info, other,
                   txId, blockInfo, requests>>

\* a second call starts while the first has not finished
StartOther ==
    /\ other.pc = "idle"
    /\ pc # "returned"
    /\ calls < MaxCalls
    /\ calls' = calls + 1
    /\ other' = ActiveFrame
    /\ \E b \in CallBlocks : Activate(NewFrame(b, result))
    /\ UNCHANGED <<vres, info, seen, txId, blockInfo, requests>>

\* the other call goes on
SwitchFrame ==
    /\ other.pc # "idle"
    /\ other' = ActiveFrame
    /\ Activate(Resume(other, ActiveFrame))
    /\ UNCHANGED <<vres, info, calls, seen, txId, blockInfo, requests>>

InitCalls ==
    /\ Init
    /\ buf \in CallBlocks

NextCalls == Next \/ CallAgain \/ StartOther \/ SwitchFrame

SpecCalls == InitCalls /\ [][NextCalls]_vars

----------------------------------------------------------------------------
(* getChainInfo(network): buf is the blob the GetChainInfo query resolves to *)

ChainInfoReturned ==
    /\ pc = "info"
    /\ info' = [success |-> TRUE, dataSize |-> Some(Len(buf)),
                infoHex |-> Some(InfoPreview(buf)), error |-> Null]
    /\ pc' = "infoDone"
    /\ UNCHANGED <<buf, pos, headerEnd, dataEnd, txCount, result, ret, thrown,
                   vres, calls, seen, other,
                   txId, blockInfo, requests>>

\* the query (or getContract) rejects: the catch block answers
ChainInfoFailed ==
    /\ pc = "info"
    /\ info' = [success |-> FALSE, dataSize |-> Null, infoHex |-> Null,
                error |-> Some(QueryError)]
    /\ pc' = "infoFailed"
    /\ UNCHANGED <<buf, pos, headerEnd, dataEnd, txCount, result, ret, thrown,
                   vres, calls, seen, other,
                   txId, blockInfo, requests>>

InitInfo ==
    /\ buf \in InfoBuffers
    /\ pc = "info"
    /\ pos = 0
    /\ headerEnd = 0
    /\ dataEnd = 0
    /\ txCount = 0
    /\ result = EmptyResult
    /\ ret = NoRecord
    /\ thrown = Null
    /\ vres = VarintThrown("")
    /\ info = NoInfo
    /\ calls = 1
    /\ seen = {}
    /\ other = NoFrame
    /\ txId = NoTxId
    /\ blockInfo = NoBlockInfo
    /\ requests = NoRequests

NextInfo == ChainInfoReturned \/ ChainInfoFailed

SpecInfo == InitInfo /\ [][NextInfo]_vars

SpecVarint == InitVarint /\ [][NextVarint]_vars

----------------------------------------------------------------------------
(* getBlockInfoFromTxId(network, txId): buf is the blob the GetBlockByTxID
   query resolves to; parseBlockData(blockBytes) runs on it with the steps
   above *)

\* await qscc.evaluateTransaction(...) resolves: parseBlockData is entered
BlockQueryResolved ==
    /\ pc = "query"
    /\ pc' = "start"
    /\ UNCHANGED <<buf, pos, headerEnd, dataEnd, txCount, result, ret, thrown,
                   vres, info, calls, seen, other, txId, blockInfo, requests>>

\* the query (or getContract) rejects: the catch block answers
BlockQueryRejected ==
    /\ pc = "query"
    /\ blockInfo' = BlockInfoFailure(QueryError)
    /\ pc' = "blockInfoFailed"
    /\ UNCHANGED <<buf, pos, headerEnd, dataEnd, txCount, result, ret, thrown,
                   vres, info, calls, seen, other, txId, requests>>

\* parseBlockData has returned blockData (= ret): the return statement
BlockInfoReturned ==
    /\ pc = "returned"
    /\ blockInfo' = BlockInfoOf(txId, buf, ret)
    /\ pc' = "blockInfoDone"
    /\ UNCHANGED <<buf, pos, headerEnd, dataEnd, txCount, result, ret, thrown,
                   vres, info, calls, seen, other, txId, requests>>

InitBlockInfo ==
    /\ buf \in AllSeqs(SmallBytes, MaxLiveLen) \cup CraftedBlocks \cup CallBlocks
    /\ txId \in TxIds
    /\ pc = "query"
    /\ pos = 0
    /\ headerEnd = 0
    /\ dataEnd = 0
    /\ txCount = 0
    /\ result = EmptyResult
    /\ ret = NoRecord
    /\ thrown = Null
    /\ vres = VarintThrown("")
    /\ info = NoInfo
    /\ calls = 1
    /\ seen = {}
    /\ other = NoFrame
    /\ blockInfo = NoBlockInfo
    /\ requests = NoRequests

NextBlockInfo ==
    \/ BlockQueryResolved
    \/ BlockQueryRejected
    \/ BlockInfoReturned
    \/ Next

SpecBlockInfo == InitBlockInfo /\ [][NextBlockInfo]_vars

----------------------------------------------------------------------------
(* The handlers of the /api routes.  Each action is the code one request runs
   between two awaits; a handler that answers runs its finally block in the
   same step *)

Served(r, req) ==
    /\ requests' = [requests EXCEPT ![r] = req]
    /\ UNCHANGED <<buf, pc, pos, headerEnd, dataEnd, txCount, result, ret, thrown,
                   vres, info, calls, seen, other, txId, blockInfo>>

\* a request arrives: the handler starts and calls connectToNetwork
Arrive(r) ==
    /\ requests[r].pc = "idle"
    /\ \E route \in Routes : Served(r, NewRequest(route))

\* createGrpcClient returns new grpc.Client(...)
CreateGrpcClient(r) ==
    /\ requests[r].pc = "createGrpcClient"
    /\ Served(r, [requests[r] EXCEPT !.clientMade = TRUE, !.pc = "loadIdentity"])

\* createGrpcClient throws (no TLS root certificate): connectToNetwork
\* rethrows, the handler catches
CreateGrpcClientThrows(r) ==
    /\ requests[r].pc = "createGrpcClient"
    /\ Served(r, CatchAndFinally(requests[r], CertificateError))

\* loadIdentity returns the identity
LoadIdentity(r) ==
    /\ requests[r].pc = "loadIdentity"
    /\ Served(r, [requests[r] EXCEPT !.pc = "connect"])

\* loadIdentity throws (no user credentials, no .pem file, no key):
\* connectToNetwork rethrows without closing its client, the handler's
\* gateway and client are still undefined
LoadIdentityThrows(r) ==
    /\ requests[r].pc = "loadIdentity"
    /\ \E message \in IdentityErrors : Served(r, CatchAndFinally(requests[r], message))

\* connect(...) returns the gateway, connectToNetwork returns, the handler
\* binds gateway and client and starts its first query
Connect(r) ==
    /\ requests[r].pc = "connect"
    /\ Served(r, [requests[r] EXCEPT
                     !.gatewayMade = TRUE, !.gateway = TRUE, !.client = TRUE,
                     !.pc = IF requests[r].route \in LookupFirst
                            THEN "lookup" ELSE "query"])

\* signers.newPrivateKeySigner or connect throws: no gateway is made
ConnectThrows(r) ==
    /\ requests[r].pc = "connect"
    /\ Served(r, CatchAndFinally(requests[r], ConnectError))

\* contract.evaluateTransaction('GetAllHashes') resolves and the answer parses
QueryResolved(r) ==
    /\ requests[r].pc = "query"
    /\ \E outcome \in Outcomes(requests[r].route) :
          CASE outcome \in {"noData", "notFound"} ->
                   Served(r, Finally(Respond(requests[r], 404)))
            [] outcome \in {"listed", "found", "foundWithoutTxId"} ->
                   Served(r, Finally(Respond(requests[r], 200)))
            [] outcome = "foundWithTxId" ->
                   Served(r, [requests[r] EXCEPT !.pc = "lookup"])

\* the query rejects, or decoding / JSON.parse of its answer throws
QueryRejected(r) ==
    /\ requests[r].pc = "query"
    /\ Served(r, CatchAndFinally(requests[r], QueryError))

\* getBlockInfoFromTxId or getChainInfo resolves (both catch every
\* exception): the handler answers
LookupResolved(r) ==
    /\ requests[r].pc = "lookup"
    /\ Served(r, Finally(Respond(requests[r], 200)))

\* the server listens and no request has arrived; the decoder is not running
InitRequests ==
    /\ requests = NoRequests
    /\ buf = <<>>
    /\ pc = "idle"
    /\ pos = 0
    /\ headerEnd = 0
    /\ dataEnd = 0
    /\ txCount = 0
    /\ result = EmptyResult
    /\ ret = NoRecord
    /\ thrown = Null
    /\ vres = VarintThrown("")
    /\ info = NoInfo
    /\ calls = 1
    /\ seen = {}
    /\ other = NoFrame
    /\ txId = NoTxId
    /\ blockInfo = NoBlockInfo

NextRequests ==
    \E r \in Requests :
        \/ Arrive(r)
        \/ CreateGrpcClient(r)
        \/ CreateGrpcClientThrows(r)
        \/ LoadIdentity(r)
        \/ LoadIdentityThrows(r)
        \/ Connect(r)
        \/ ConnectThrows(r)
        \/ QueryResolved(r)
        \/ QueryRejected(r)
        \/ LookupResolved(r)

SpecRequests == InitRequests /\ [][NextRequests]_vars

----------------------------------------------------------------------------
(* Properties *)

Finished == pc \in {"returned", "raised"}

AllAbsent(r) ==
    /\ r.blockNumber = Null
    /\ r.previousHash = Null
    /\ r.dataHash = Null
    /\ r.transactionCount = 0

HasErrorText(r) == r.error # Null /\ r.error[1] # ""

\* C1: no exception leaves parseBlockData: the call never ends by raising,
\* and every failure thrown inside it (by decodeVarint or by the header tag
\* check) ends the call with a returned record that carries that failure
ThrownIsCaught ==
    /\ pc # "raised"
    /\ thrown # Null => (pc = "returned" /\ ret.error = thrown)

\* a varint ran past the end of the buffer and the call returned a record
VarintFailureCaught ==
    /\ pc = "returned"
    /\ thrown = Some(VarintError)
    /\ ret.error = Some(VarintError)

\* C2: parseBlockData terminates on every finite buffer: every call
\* eventually returns or fails
ParseTerminates == <>Finished

\* C3: the cursor never exceeds the buffer length
CursorWithinBuffer == pos <= Len(buf)

\* C4: a header whose declared end lies past the end of the buffer makes the
\* call fail: error description present, header fields absent
HeaderEndPastBufferFails ==
    (pc = "returned" /\ headerEnd > Len(buf))
        => (HasErrorText(ret) /\ AllAbsent(ret))

\* C5: after a failure of the header pass or the data pass the returned
\* record has no header field, transactionCount 0 and a non-empty error text,
\* whatever had been decoded before the failure
FailureGivesEmptyRecord ==
    (pc = "returned" /\ thrown # Null)
        => (AllAbsent(ret) /\ HasErrorText(ret))

\* the block number was decoded, then a varint of the data section was
\* truncated: the returned record does not hold the block number
FailedAfterBlockNumber ==
    /\ pc = "returned"
    /\ thrown = Some(VarintError)
    /\ result.blockNumber # Null
    /\ pos > headerEnd
    /\ ret.blockNumber = Null

\* C6: a buffer whose first byte is not 0x0a (the empty buffer included)
\* ends at once with an all-absent record and a non-empty error text, and
\* does not raise
BadLeadingTagRejected ==
    ByteAt(buf, 0) # 10
        => /\ pc \in {"start", "returned"}
           /\ pc = "returned" => (AllAbsent(ret) /\ HasErrorText(ret))

\* a non-empty buffer with a wrong first byte was rejected
WrongFirstByteRejected ==
    /\ pc = "returned"
    /\ buf # <<>>
    /\ ByteAt(buf, 0) # 10
    /\ ret.error = Some(HeaderTagError)

\* C7: a well-formed block decodes to its block number, the lowercase hex of
\* its two hashes and its number of envelopes, without error
NumberIs(field, number) ==
    /\ field # Null
    /\ field[1] >= 0
    /\ EncodeVarint(field[1]) = number

WellFormedDecoded ==
    pc = "returned" =>
        \A c \in WellFormedCases :
            buf = c.block =>
                /\ NumberIs(ret.blockNumber, c.number)
                /\ ret.previousHash = Some(ToHex(c.previous))
                /\ ret.dataHash = Some(ToHex(c.data))
                /\ ret.transactionCount = c.count
                /\ ret.error = Null

\* C8: decodeVarint applied to the encoding of n, at the offset where the
\* encoding starts, returns n and the length of the encoding
EncodingTable == {[n |-> n, bytes |-> EncodeVarint(n)] : n \in VarintSamples}

EncodedAt(buffer, offset, bytes) ==
    /\ offset + Len(bytes) <= Len(buffer)
    /\ SubSeq(buffer, offset + 1, offset + Len(bytes)) = bytes

VarintRoundTrip ==
    pc = "varintDone" =>
        \A e \in EncodingTable :
            EncodedAt(buf, pos, e.bytes)
                => vres = VarintReturn(e.n, Len(e.bytes))

\* 300000000 in five bytes, decoded at offset 1
RoundTripFiveBytes ==
    /\ pc = "varintDone"
    /\ pos = 1
    /\ EncodedAt(buf, 1, <<128, 198, 134, 143, 1>>)
    /\ vres = VarintReturn(300000000, 5)

\* C9: when no byte with the high bit clear lies at or after offset,
\* decodeVarint fails with the truncation error and returns no value
Truncated(buffer, offset) ==
    \A i \in offset..(Len(buffer) - 1) : buffer[i + 1] >= 128

TruncatedVarintFails ==
    (pc = "varintDone" /\ Truncated(buf, pos))
        => vres = VarintThrown(VarintError)

\* a lone continuation byte at the end of the buffer was rejected
LoneContinuationByteFails ==
    /\ pc = "varintDone"
    /\ pos = Len(buf) - 1
    /\ buf[pos + 1] >= 128
    /\ vres.thrown = Some(VarintError)
    /\ vres.value = Null

\* C10: the value decodeVarint returns is never negative
VarintNonNegative ==
    (pc = "varintDone" /\ vres.thrown = Null) => vres.value[1] >= 0

\* C11: when the header pass succeeds and the byte at the header end is not
\* 0x12 (or the buffer ends there), the call returns transactionCount 0 and
\* no error, and the header fields it decoded are in the returned record
NoDataSectionKeepsHeader ==
    pc = "returned" =>
        /\ (thrown = Null /\ ByteAt(buf, headerEnd) # 18)
               => /\ ret.transactionCount = 0
                  /\ ret.error = Null
                  /\ ret.blockNumber = result.blockNumber
                  /\ ret.previousHash = result.previousHash
                  /\ ret.dataHash = result.dataHash
        /\ \A c \in HeaderOnlyCases :
               buf = c.block
                   => /\ NumberIs(ret.blockNumber, c.number)
                      /\ ret.previousHash = Some(ToHex(c.previous))
                      /\ ret.dataHash = Some(ToHex(c.data))
                      /\ ret.transactionCount = 0
                      /\ ret.error = Null

\* a header with all three fields, followed by a byte that is not 0x12
HeaderThenOtherTagReturned ==
    /\ pc = "returned"
    /\ pos = headerEnd
    /\ ByteAt(buf, headerEnd) = 10
    /\ ret.blockNumber = Some(42)
    /\ ret.previousHash = Some(<<"a", "a">>)
    /\ ret.dataHash = Some(<<"b", "b">>)
    /\ ret.transactionCount = 0
    /\ ret.error = Null

\* the lowercase hexadecimal digit of a value 0..15
LowerHexDigit(d) ==
    CASE d = 0 -> "0" [] d = 1 -> "1" [] d = 2 -> "2" [] d = 3 -> "3"
      [] d = 4 -> "4" [] d = 5 -> "5" [] d = 6 -> "6" [] d = 7 -> "7"
      [] d = 8 -> "8" [] d = 9 -> "9" [] d = 10 -> "a" [] d = 11 -> "b"
      [] d = 12 -> "c" [] d = 13 -> "d" [] d = 14 -> "e" [] d = 15 -> "f"

\* text is the lowercase hex of the count bytes of buffer that follow
\* position first (0-based), two characters per byte
IsHexOf(text, buffer, first, count) ==
    /\ count >= 0
    /\ first + count <= Len(buffer)
    /\ Len(text) = 2 * count
    /\ \A i \in 1..count :
          /\ text[(2 * i) - 1] = LowerHexDigit(buffer[first + i] \div 16)
          /\ text[2 * i] = LowerHexDigit(buffer[first + i] % 16)

\* C12: a header hash field (tag 0x12 or 0x1a) with length varint L sets
\* previousHash (dataHash) to the lowercase hex of exactly the L bytes that
\* follow the length varint: 2 * L characters
HashIsDeclaredBytes ==
    [][(/\ pc = "header"
        /\ pos < headerEnd
        /\ ByteAt(buf, pos) \in {18, 26}
        /\ decodeVarint(buf, pos + 1).thrown = Null)
       => LET hashLen == decodeVarint(buf, pos + 1)
              field == IF ByteAt(buf, pos) = 18
                       THEN result'.previousHash ELSE result'.dataHash
          IN /\ field # Null
             /\ IsHexOf(field[1], buf, (pos + 1) + hashLen.bytesRead[1],
                        hashLen.value[1])]_vars

\* C13: during a call the cursor only moves forward
CursorMovesForward == [][pos' >= pos]_vars

\* C17: a header field is populated only from bytes of the header sub-range:
\* the tag, the varint and the hash bytes read by a field step all lie at
\* positions headerStart .. headerEnd - 1
HeaderFieldInsideHeader ==
    [][(/\ pc = "header"
        /\ pos < headerEnd
        /\ ByteAt(buf, pos) \in {8, 18, 26}
        /\ pc' = "header")
       => /\ pos >= headerStart(buf)
          /\ (pos + 1) + decodeVarint(buf, pos + 1).bytesRead[1] <= headerEnd
          /\ pos' <= headerEnd]_vars

\* C18: the data pass starts at the header end, wherever the header loop
\* stopped, and a data section is scanned only if the byte there is 0x12:
\* its length varint is the one at headerEnd + 1
DataPassStartsAtHeaderEnd ==
    /\ pc = "dataTag" => pos = headerEnd
    /\ pc = "data"
         => /\ ByteAt(buf, headerEnd) = 18
            /\ LET dataLength == decodeVarint(buf, headerEnd + 1)
               IN /\ dataLength.thrown = Null
                  /\ dataEnd = ((headerEnd + 1) + dataLength.bytesRead[1])
                               + dataLength.value[1]
    /\ (pc = "returned" /\ ret.transactionCount > 0)
         => ByteAt(buf, headerEnd) = 18

\* the header loop consumed the byte at 3 as the block number and stopped
\* at 4; the data pass took the same byte at 3, the header end, as data tag
DataPassAfterOverrun ==
    /\ pc = "data"
    /\ buf = <<10, 1, 8, 18, 0>>
    /\ headerEnd = 3
    /\ result.blockNumber = Some(18)
    /\ dataEnd = 5

\* C19: in the header loop a tag other than 0x08, 0x12, 0x1a moves the
\* cursor by exactly one byte, throws nothing and changes no header field
UnknownTagSkipsOneByte ==
    [][(/\ pc = "header"
        /\ pos < headerEnd
        /\ ByteAt(buf, pos) \notin {8, 18, 26})
       => /\ pos' = pos + 1
          /\ pc' = "header"
          /\ thrown' = Null
          /\ result' = result]_vars

\* the unknown tag 0x00 at the header start was skipped; the field after it
\* is still to be read
UnknownTagSkipped ==
    /\ pc = "header"
    /\ headerStart(buf) = 2
    /\ ByteAt(buf, 2) = 0
    /\ pos = 3
    /\ pos < headerEnd
    /\ ByteAt(buf, 3) = 8
    /\ result = EmptyResult

\* C20: transactionCount is the number of consecutive 0x0a entries at the
\* start of the data range, each skipped with its whole payload; the first
\* other tag ends the count without error, and 0x0a entries after it, or
\* after the data range, are not counted
EnvelopesCounted ==
    pc = "returned" =>
        \A c \in DataSectionCases :
            buf = c.block
                => /\ ret.transactionCount = Len(c.payloads)
                   /\ ret.error = Null
                   /\ ret.blockNumber = Some(7)

\* two envelopes, one of them holding 0x0a bytes, then an entry tagged 0x12
\* and one more envelope: 2 is returned
CountStoppedAtOtherTag ==
    /\ pc = "returned"
    /\ buf = <<10, 2, 8, 7, 18, 12, 10, 3, 10, 10, 10, 10, 1, 18, 18, 0, 10, 0>>
    /\ ret.transactionCount = 2
    /\ ret.error = Null

\* C15: infoHex is the lowercase hex of the first min(32, length) bytes of
\* the info blob: empty for an empty blob, the whole blob when it is shorter
\* than 32 bytes, never more than 64 characters
InfoHexIsPrefix ==
    (pc = "infoDone" /\ info.success)
        => /\ info.infoHex # Null
           /\ IsHexOf(info.infoHex[1], buf, 0,
                      IF Len(buf) < 32 THEN Len(buf) ELSE 32)
           /\ Len(info.infoHex[1]) <= 64
           /\ buf = <<>> => info.infoHex[1] = <<>>

\* a blob longer than 32 bytes gave 64 characters
LongInfoTruncated ==
    /\ pc = "infoDone"
    /\ Len(buf) > 32
    /\ Len(info.infoHex[1]) = 64
    /\ info.infoHex[1][1] = "a"
    /\ info.infoHex[1][64] = "b"

\* the calls that have returned so far, each with its buffer and its record
CompletedCalls ==
    seen
    \cup (IF pc = "returned" THEN {<<buf, ret>>} ELSE {})
    \cup (IF other.pc = "returned" THEN {<<other.buf, other.ret>>} ELSE {})

\* C14: calls on the same buffer return identical records, whatever calls
\* came before or in between
SameBufferSameRecord ==
    \A x \in CompletedCalls : \A y \in CompletedCalls :
        x[1] = y[1] => x[2] = y[2]

\* third call, on the buffer of an earlier call, after a call on another
\* buffer that decoded a block number: the record is the earlier one
SameRecordAfterOtherCall ==
    /\ pc = "returned"
    /\ calls = 3
    /\ other.pc = "idle"
    /\ <<buf, ret>> \in seen
    /\ ret.blockNumber = Null
    /\ ret.error = Null
    /\ \E y \in seen : y[1] # buf /\ y[2].blockNumber # Null

Record(blockNumber, previousHash, dataHash, transactionCount, error) ==
    [blockNumber |-> blockNumber, previousHash |-> previousHash,
     dataHash |-> dataHash, transactionCount |-> transactionCount,
     error |-> error]

\* what parseBlockData returns for each of CallBlocks when it runs alone
AloneRecords ==
    { <<<<10, 0>>, Record(<<>>, <<>>, <<>>, 0, <<>>)>>,
      <<<<10, 2, 8, 1>>, Record(<<1>>, <<>>, <<>>, 0, <<>>)>>,
      <<<<10, 9, 0, 8, 42, 18, 1, 170, 26, 1, 187, 18, 2, 10, 0>>,
        Record(<<42>>, << <<"a", "a">> >>, << <<"b", "b">> >>, 1, <<>>)>>,
      <<<<8>>, Record(<<>>, <<>>, <<>>, 0, <<"Expected header field">>)>>,
      <<<<10, 2, 8, 1, 18>>,
        Record(<<>>, <<>>, <<>>, 0, <<"Varint extends beyond buffer">>)>>,
      <<<<10, 3, 18, 1, 170>>, Record(<<>>, << <<"a", "a">> >>, <<>>, 0, <<>>)>> }

\* C16: calls that run side by side, in any interleaving of their steps,
\* each return the record they return when run alone
InterleavedCallsAsAlone ==
    \A frame \in {ActiveFrame, other} :
        frame.pc = "returned"
            => /\ \E a \in AloneRecords : a[1] = frame.buf
               /\ \A a \in AloneRecords :
                     a[1] = frame.buf => frame.ret = a[2]

\* a call returned a record without block number while another call,
\* started and not finished, holds a decoded block number
ReturnedBesideRunningCall ==
    /\ pc = "returned"
    /\ ret.blockNumber = Null
    /\ ret.error = Null
    /\ other.pc \in {"header", "dataTag", "data"}
    /\ other.result.blockNumber # Null

----------------------------------------------------------------------------
\* parseBlockData returned the record of its catch block and the return
\* statement of getBlockInfoFromTxId has built the block info
DecodeFailed == pc = "blockInfoDone" /\ ret.error # Null

\* C21: when parseBlockData reports a decode failure inside
\* getBlockInfoFromTxId (the query resolved), the returned block info has
\* success true, blockNumber, previousBlockHash and dataHash null,
\* transactionCount 0, and carries the error message of the decode failure
DecodeFailureReported ==
    DecodeFailed =>
        /\ blockInfo.success = TRUE
        /\ blockInfo.blockNumber = Null
        /\ blockInfo.previousBlockHash = Null
        /\ blockInfo.dataHash = Null
        /\ blockInfo.transactionCount = 0
        /\ "error" \in DOMAIN blockInfo
        /\ blockInfo.error = ret.error[1]

----------------------------------------------------------------------------
\* the handler of request r has finished
HandlerDone(r) == requests[r].pc = "done"

\* C22: for every request to an /api route, the gRPC client and the gateway
\* made while serving it are closed exactly once by the time the handler has
\* finished (never more than once, and once when the handler is done),
\* whatever path the handler took
ConnectionsClosedOnce ==
    \A r \in Requests :
        /\ requests[r].clientCloses <= 1
        /\ requests[r].gatewayCloses <= 1
        /\ HandlerDone(r) =>
              /\ requests[r].clientMade => requests[r].clientCloses = 1
              /\ requests[r].gatewayMade => requests[r].gatewayCloses = 1

====
